---- MODULE Spec2Model ----
(***************************************************************************)
(* Model of src/src/App.jsx (RNAModificationAnalyzer): the loader effect,  *)
(* the selection state, and the derived values scatterData, regression and *)
(* filteredGenes that every render recomputes from that state.             *)
(*                                                                         *)
(* JavaScript numbers are modelled as extended rationals <<n, d>>:         *)
(*   d > 0  the finite number n/d in lowest terms,                         *)
(*   <<1,0>> Infinity, <<-1,0>> -Infinity, <<0,0>> NaN.                    *)
(* Arithmetic is exact: the rounding of IEEE-754 doubles and the sign of   *)
(* zero are not modelled; division by zero and NaN propagation are.        *)
(*                                                                         *)
(* A JavaScript object is a function whose DOMAIN is the set of its own    *)
(* properties; reading an absent property yields undefined.  Strings that  *)
(* the code inspects (name, chromosome, search term) are sequences of      *)
(* one-character strings; property keys and identifiers are TLA+ strings.  *)
(***************************************************************************)
EXTENDS Integers, Sequences, FiniteSets, TLC

\* ------------------------------------------------------------------------
\* Bounds of the model
\* ------------------------------------------------------------------------
MaxGenes == 2

MaxPoints == 3

\* ------------------------------------------------------------------------
\* JavaScript number arithmetic
\* ------------------------------------------------------------------------
NaN == <<0, 0>>

Infinity == <<1, 0>>

Sign(n) == IF n > 0 THEN 1 ELSE IF n < 0 THEN -1 ELSE 0

Abs(n) == IF n < 0 THEN -n ELSE n

RECURSIVE GCD(_, _)
GCD(a, b) == IF b = 0 THEN a ELSE GCD(b, a % b)

Norm(n, d) ==
  IF d = 0 THEN <<Sign(n), 0>>
  ELSE LET s == Sign(d)
           g == GCD(Abs(n), Abs(d))
       IN  <<(s * n) \div g, (s * d) \div g>>

Num(n) == <<n, 1>>

IsFinite(a) == a[2] # 0

Add(a, b) ==
  IF a[2] = 0 /\ b[2] = 0
  THEN (IF a = b THEN a ELSE NaN)
  ELSE Norm(a[1] * b[2] + b[1] * a[2], a[2] * b[2])

Neg(a) == <<-a[1], a[2]>>

Sub(a, b) == Add(a, Neg(b))

Mul(a, b) == Norm(a[1] * b[1], a[2] * b[2])

Recip(b) ==
  IF b = NaN THEN NaN
  ELSE IF b[1] = 0 THEN Infinity
  ELSE IF b[2] = 0 THEN Num(0)
  ELSE Norm(b[2], b[1])

Div(a, b) == Mul(a, Recip(b))

\* ------------------------------------------------------------------------
\* calculateLinearRegression (App.jsx 6-36)
\* ------------------------------------------------------------------------
XSCALE == 100

ScaledX_Unscaled(point, xKey) == point[xKey]

\* const x = point[xKey] * 100
ScaledX(point, xKey) == Mul(point[xKey], Num(XSCALE))

\* the first forEach: sumX, sumY, sumXY, sumX2 over data[1..k]
RECURSIVE Sums(_, _, _, _)
Sums(data, xKey, yKey, k) ==
  IF k = 0
  THEN [sumX |-> Num(0), sumY |-> Num(0), sumXY |-> Num(0), sumX2 |-> Num(0)]
  ELSE LET s == Sums(data, xKey, yKey, k - 1)
           x == ScaledX(data[k], xKey)
           y == data[k][yKey]
       IN  [sumX  |-> Add(s.sumX, x),
            sumY  |-> Add(s.sumY, y),
            sumXY |-> Add(s.sumXY, Mul(x, y)),
            sumX2 |-> Add(s.sumX2, Mul(x, x))]

\* the second forEach: ssRes, ssTot over data[1..k]
RECURSIVE Squares(_, _, _, _, _, _, _)
Squares(data, xKey, yKey, slope, intercept, yMean, k) ==
  IF k = 0
  THEN [ssRes |-> Num(0), ssTot |-> Num(0)]
  ELSE LET s == Squares(data, xKey, yKey, slope, intercept, yMean, k - 1)
           x == ScaledX(data[k], xKey)
           y == data[k][yKey]
           yPred == Add(Mul(slope, x), intercept)
           dRes == Sub(y, yPred)
           dTot == Sub(y, yMean)
       IN  [ssRes |-> Add(s.ssRes, Mul(dRes, dRes)),
            ssTot |-> Add(s.ssTot, Mul(dTot, dTot))]

\* The function has no throw statement: it always returns {slope, intercept, r2}.
calculateLinearRegression(data, xKey, yKey) ==
  LET n == Num(Len(data))
      s == Sums(data, xKey, yKey, Len(data))
      slope == Div(Sub(Mul(n, s.sumXY), Mul(s.sumX, s.sumY)),
                   Sub(Mul(n, s.sumX2), Mul(s.sumX, s.sumX)))
      intercept == Div(Sub(s.sumY, Mul(slope, s.sumX)), n)
      yMean == Div(s.sumY, n)
      q == Squares(data, xKey, yKey, slope, intercept, yMean, Len(data))
      r2 == Sub(Num(1), Div(q.ssRes, q.ssTot))
  IN  [throws |-> "none", slope |-> slope, intercept |-> intercept, r2 |-> r2]

\* ------------------------------------------------------------------------
\* Inputs: the records the two JSON files may hold, search terms, point sets
\* ------------------------------------------------------------------------
Rat(n, d) == Norm(n, d)

\* GeneRecord-shaped objects; any property not listed is absent.
geneAb ==
  [id |-> 1, name |-> <<"A", "b">>, chromosome |-> <<"c", "7">>,
   utr5_ai_rate |-> Rat(1, 10), utr5_cpm |-> Num(10)]

geneB ==
  [id |-> 2, name |-> <<"B">>,
   utr5_ai_rate |-> Rat(1, 5), utr5_cpm |-> Num(20),
   total_ai_rate |-> Rat(3, 10), total_cpm |-> Num(30)]

geneNoName ==
  [id |-> 3, chromosome |-> <<"C", "7">>,
   utr5_ai_rate |-> Rat(3, 10), utr5_cpm |-> Num(30)]

geneNoId ==
  [name |-> <<"a">>, exon_m6a_rate |-> Num(0), exon_cpm |-> Num(10)]

GenePool == { geneAb, geneB, geneNoName, geneNoId }

\* the arrays handed to project and filter in direct calls
Datasets == UNION { [1..n -> GenePool] : n \in 0..MaxGenes }

\* what response.json() may resolve to: an array of at most MaxGenes records
FileGenes == { geneAb, geneNoName, geneNoId }

FileContents == UNION { [1..n -> FileGenes] : n \in 0..MaxGenes }

\* what the search box may hold
SearchTerms == { <<>>, <<"B">>, <<"c", "7">> }

Rates == { Num(0), Rat(1, 10), Rat(1, 5), Rat(3, 10) }

Cpms == { Num(0), Num(10), Num(20), Num(30) }

Points == { [modRate |-> r, cpm |-> c] : r \in Rates, c \in Cpms }

PointSets == UNION { [1..n -> Points] : n \in 0..MaxPoints }

\* ------------------------------------------------------------------------
\* Component constants (App.jsx 77-94)
\* ------------------------------------------------------------------------
samples == { "MR01_1", "MR01_2" }

regions == { "utr5", "utr3", "exon", "intron", "total" }

modTypes == { "ai", "m6a", "either" }

\* ------------------------------------------------------------------------
\* JavaScript helpers used by the derived values
\* ------------------------------------------------------------------------
Has(obj, key) == key \in DOMAIN obj

\* gene[key] || 0 for a numeric property: undefined, 0 and NaN are falsy
OrZero(obj, key) ==
  IF Has(obj, key) /\ obj[key] # Num(0) /\ obj[key] # NaN THEN obj[key] ELSE Num(0)

\* String.prototype.toLowerCase on the characters the inputs use
LowerChar(c) ==
  CASE c = "A" -> "a"
    [] c = "B" -> "b"
    [] c = "C" -> "c"
    [] OTHER   -> c

toLowerCase(str) == [i \in 1..Len(str) |-> LowerChar(str[i])]

\* String.prototype.includes
includes(str, sub) ==
  \E i \in 0..(Len(str) - Len(sub)) : SubSeq(str, i + 1, i + Len(sub)) = sub

\* ------------------------------------------------------------------------
\* scatterData (App.jsx 96-106)
\* ------------------------------------------------------------------------
rateKey_NoModType(region, modType) == region \o "_rate"

\* `${selectedRegion}_${selectedModType}_rate`
rateKey(region, modType) == region \o "_" \o modType \o "_rate"

\* `${selectedRegion}_cpm`
cpmKey(region) == region \o "_cpm"

\* The object literal of the map callback; a property whose value is
\* undefined (gene.name, gene.id of a record that lacks it) is left out.
Point(gene, region, modType) ==
  LET keys == {"modRate", "cpm"} \cup ({"name", "id"} \cap DOMAIN gene)
  IN  [k \in keys |->
         CASE k = "modRate" -> OrZero(gene, rateKey(region, modType))
           [] k = "cpm"     -> OrZero(gene, cpmKey(region))
           [] OTHER         -> gene[k]]

project_DropRateless(ds, region, modType) ==
  LET kept == SelectSeq(ds, LAMBDA g : Has(g, rateKey(region, modType)))
  IN  [i \in 1..Len(kept) |-> Point(kept[i], region, modType)]

\* geneData.map(gene => ({...}))
project(ds, region, modType) ==
  [i \in 1..Len(ds) |-> Point(ds[i], region, modType)]

\* ------------------------------------------------------------------------
\* filteredGenes (App.jsx 122-128)
\* ------------------------------------------------------------------------
\* the filter callback; gene.name.toLowerCase() on a record without name
\* is a TypeError
Matches(gene, term) ==
  \/ includes(toLowerCase(gene.name), toLowerCase(term))
  \/ /\ Has(gene, "chromosome")
     /\ gene.chromosome # <<>>
     /\ includes(toLowerCase(gene.chromosome), toLowerCase(term))

filter(ds, term) ==
  IF term = <<>> THEN [throws |-> "none", value |-> ds]
  ELSE IF \E i \in 1..Len(ds) : ~Has(ds[i], "name")
       THEN [throws |-> "TypeError", value |-> <<>>]
       ELSE [throws |-> "none",
             value |-> SelectSeq(ds, LAMBDA g : Matches(g, term))]

\* ------------------------------------------------------------------------
\* State (App.jsx 39-47), the position of loadData, and a call of one of the
\* pure computations with explicit arguments
\* ------------------------------------------------------------------------
VARIABLES
  geneDataMR01_1,   \* useState([])
  geneDataMR01_2,   \* useState([])
  selectedSample,   \* useState('MR01_1')
  selectedRegion,   \* useState('utr5')
  selectedModType,  \* useState('ai')
  searchTerm,       \* useState('')
  selectedGene,     \* useState(null): <<>> is null/undefined, <<g>> the record g
  isLoading,        \* useState(true)
  loadError,        \* useState(null): "null" or the error message
  pc,               \* where loadData is: mount, fetch1, json1, fetch2, json2, done
  call,             \* the arguments of a direct call of project, fit or filter
  ret,              \* <<>> before that call returns, <<result>> after
  data1,            \* loadData's const data1: <<>> before it is assigned, then <<array>>
  data2             \* loadData's const data2, likewise

vars == <<geneDataMR01_1, geneDataMR01_2, selectedSample, selectedRegion,
          selectedModType, searchTerm, selectedGene, isLoading, loadError,
          pc, call, ret, data1, data2>>

selection == <<selectedSample, selectedRegion, selectedModType, searchTerm,
               selectedGene>>

datasets == <<geneDataMR01_1, geneDataMR01_2>>

direct == <<call, ret>>

locals == <<data1, data2>>

\* ------------------------------------------------------------------------
\* Values every render derives from the state (App.jsx 75, 96-128)
\* ------------------------------------------------------------------------
geneData == IF selectedSample = "MR01_1" THEN geneDataMR01_1 ELSE geneDataMR01_2

scatterData == project(geneData, selectedRegion, selectedModType)

regression == calculateLinearRegression(scatterData, "modRate", "cpm")

filteredGenes == filter(geneData, searchTerm)

\* The hooks run before the early returns of lines 134 and 152, so a throw in
\* one of them fails the render whatever isLoading and loadError are.  Only
\* the filter callback can throw: map and calculateLinearRegression cannot.
RenderThrows == filteredGenes.throws # "none"

\* The controls exist only in the main view (App.jsx 174-).
Interactive == ~isLoading /\ loadError = "null" /\ ~RenderThrows

\* ------------------------------------------------------------------------
\* Init: the state of the first render
\* ------------------------------------------------------------------------
InitComponent ==
  /\ geneDataMR01_1 = <<>>
  /\ geneDataMR01_2 = <<>>
  /\ selectedSample = "MR01_1"
  /\ selectedRegion = "utr5"
  /\ selectedModType = "ai"
  /\ searchTerm = <<>>
  /\ selectedGene = <<>>
  /\ isLoading = TRUE
  /\ loadError = "null"
  /\ pc = "mount"
  /\ data1 = <<>>
  /\ data2 = <<>>

Init == InitComponent /\ call = [op |-> "none"] /\ ret = <<>>

\* ------------------------------------------------------------------------
\* loadData (App.jsx 49-73); one action per continuation between awaits
\* ------------------------------------------------------------------------
Catch_KeepLoading(message) ==
  /\ loadError' = message
  /\ pc' = "done"
  /\ UNCHANGED <<datasets, selection, isLoading, direct, locals>>

\* the catch block: setLoadError(error.message); setIsLoading(false)
Catch(message) ==
  /\ loadError' = message
  /\ isLoading' = FALSE
  /\ pc' = "done"
  /\ UNCHANGED <<datasets, selection, direct, locals>>

\* useEffect(..., []) runs loadData once: setIsLoading(true); fetch(file 1)
Mount ==
  /\ pc = "mount"
  /\ isLoading' = TRUE
  /\ pc' = "fetch1"
  /\ UNCHANGED <<datasets, selection, loadError, direct, locals>>

\* the first fetch resolves with ok, resolves with !ok, or rejects
Fetch1 ==
  /\ pc = "fetch1"
  /\ \/ pc' = "json1" /\ UNCHANGED <<datasets, selection, isLoading, loadError, direct, locals>>
     \/ Catch("Failed to load MR01_1 data")
     \/ Catch("Failed to fetch")

\* response1.json() resolves with data1 (setGeneDataMR01_1(data1); fetch(file 2))
\* or rejects
Json1 ==
  /\ pc = "json1"
  /\ \/ \E parsed \in FileContents :
          /\ data1' = <<parsed>>
          /\ geneDataMR01_1' = data1'[1]
          /\ pc' = "fetch2"
          /\ UNCHANGED <<geneDataMR01_2, selection, isLoading, loadError, direct, data2>>
     \/ Catch("Unexpected token")

Fetch2 ==
  /\ pc = "fetch2"
  /\ \/ pc' = "json2" /\ UNCHANGED <<datasets, selection, isLoading, loadError, direct, locals>>
     \/ Catch("Failed to load MR01_2 data")
     \/ Catch("Failed to fetch")

\* response2.json() resolves with data2 (setGeneDataMR01_2(data2);
\* setIsLoading(false)) or rejects
Json2 ==
  /\ pc = "json2"
  /\ \/ \E parsed \in FileContents :
          /\ data2' = <<parsed>>
          /\ geneDataMR01_2' = data2'[1]
          /\ isLoading' = FALSE
          /\ pc' = "done"
          /\ UNCHANGED <<geneDataMR01_1, selection, loadError, direct, data1>>
     \/ Catch("Unexpected token")

\* ------------------------------------------------------------------------
\* Event handlers of the main view
\* ------------------------------------------------------------------------
SelectSample_KeepGene(sample) ==
  /\ Interactive
  /\ selectedSample' = sample
  /\ UNCHANGED <<datasets, selectedRegion, selectedModType, searchTerm,
                 selectedGene, isLoading, loadError, pc, direct, locals>>

\* App.jsx 235-238: setSelectedSample(sample.id); setSelectedGene(null)
SelectSample(sample) ==
  /\ Interactive
  /\ selectedSample' = sample
  /\ selectedGene' = <<>>
  /\ UNCHANGED <<datasets, selectedRegion, selectedModType, searchTerm,
                 isLoading, loadError, pc, direct, locals>>

\* App.jsx 274: setSelectedRegion(region.id)
SelectRegion(region) ==
  /\ Interactive
  /\ selectedRegion' = region
  /\ UNCHANGED <<datasets, selectedSample, selectedModType, searchTerm,
                 selectedGene, isLoading, loadError, pc, direct, locals>>

\* App.jsx 310: setSelectedModType(modType.id)
SelectModType(modType) ==
  /\ Interactive
  /\ selectedModType' = modType
  /\ UNCHANGED <<datasets, selectedSample, selectedRegion, searchTerm,
                 selectedGene, isLoading, loadError, pc, direct, locals>>

SetSearchTerm_ClearGene(value) ==
  /\ Interactive
  /\ searchTerm' = value
  /\ selectedGene' = <<>>
  /\ UNCHANGED <<datasets, selectedSample, selectedRegion, selectedModType,
                 isLoading, loadError, pc, direct, locals>>

\* App.jsx 479: setSearchTerm(e.target.value)
SetSearchTerm(value) ==
  /\ Interactive
  /\ searchTerm' = value
  /\ UNCHANGED <<datasets, selectedSample, selectedRegion, selectedModType,
                 selectedGene, isLoading, loadError, pc, direct, locals>>

ClickGene_StoreFiltered(i) ==
  /\ Interactive
  /\ i \in 1..Len(filteredGenes.value)
  /\ selectedGene' = <<filteredGenes.value[i]>>
  /\ geneDataMR01_1' = IF selectedSample = "MR01_1" THEN filteredGenes.value
                       ELSE geneDataMR01_1
  /\ geneDataMR01_2' = IF selectedSample = "MR01_2" THEN filteredGenes.value
                       ELSE geneDataMR01_2
  /\ UNCHANGED <<selectedSample, selectedRegion, selectedModType,
                 searchTerm, isLoading, loadError, pc, direct, locals>>

\* App.jsx 504-507: the i-th button of filteredGenes.map: setSelectedGene(gene)
ClickGene(i) ==
  /\ Interactive
  /\ i \in 1..Len(filteredGenes.value)
  /\ selectedGene' = <<filteredGenes.value[i]>>
  /\ UNCHANGED <<datasets, selectedSample, selectedRegion, selectedModType,
                 searchTerm, isLoading, loadError, pc, direct, locals>>

\* g.id === data.id, where an absent id is undefined on both sides
SameId(g, data) ==
  IF Has(g, "id") /\ Has(data, "id") THEN g.id = data.id
  ELSE ~Has(g, "id") /\ ~Has(data, "id")

\* geneData.find(g => g.id === data.id): <<first match>>, or <<>> for undefined
find(ds, data) ==
  LET hits == { j \in 1..Len(ds) : SameId(ds[j], data) }
  IN  IF hits = {} THEN <<>>
      ELSE <<ds[CHOOSE j \in hits : \A k \in hits : j <= k]>>

\* App.jsx 427-430: a click on the i-th point of the Scatter
ClickScatter(i) ==
  /\ Interactive
  /\ i \in 1..Len(scatterData)
  /\ selectedGene' = find(geneData, scatterData[i])
  /\ UNCHANGED <<datasets, selectedSample, selectedRegion, selectedModType,
                 searchTerm, isLoading, loadError, pc, direct, locals>>

Next ==
  \/ Mount
  \/ Fetch1
  \/ Json1
  \/ Fetch2
  \/ Json2
  \/ \E sample \in samples : SelectSample(sample)
  \/ \E region \in regions : SelectRegion(region)
  \/ \E modType \in modTypes : SelectModType(modType)
  \/ \E value \in SearchTerms : SetSearchTerm(value)
  \/ \E i \in 1..MaxGenes : ClickGene(i)
  \/ \E i \in 1..MaxGenes : ClickScatter(i)

Spec == Init /\ [][Next]_vars

\* Every pending fetch and json() promise eventually settles, and the effect
\* runs after the first render.
Fairness ==
  /\ WF_vars(Mount)
  /\ WF_vars(Fetch1)
  /\ WF_vars(Json1)
  /\ WF_vars(Fetch2)
  /\ WF_vars(Json2)

FairSpec == Spec /\ Fairness

\* any of the event handlers of the main view
UserAction ==
  \/ \E sample \in samples : SelectSample(sample)
  \/ \E region \in regions : SelectRegion(region)
  \/ \E modType \in modTypes : SelectModType(modType)
  \/ \E value \in SearchTerms : SetSearchTerm(value)
  \/ \E i \in 1..MaxGenes : ClickGene(i)
  \/ \E i \in 1..MaxGenes : ClickScatter(i)

\* ------------------------------------------------------------------------
\* The pure computations called directly on explicit arguments
\* ------------------------------------------------------------------------
CoreCalls ==
  { [op |-> "project", ds |-> ds, region |-> r, modType |-> m] :
      ds \in Datasets, r \in regions, m \in modTypes }
  \cup { [op |-> "fit", points |-> ps] : ps \in PointSets }
  \cup { [op |-> "filter", ds |-> ds, term |-> t] :
           ds \in Datasets, t \in SearchTerms }

InitCore == InitComponent /\ call \in CoreCalls /\ ret = <<>>

component == <<geneDataMR01_1, geneDataMR01_2, selectedSample, selectedRegion,
               selectedModType, searchTerm, selectedGene, isLoading, loadError,
               pc>>

CallProject ==
  /\ call.op = "project" /\ ret = <<>>
  /\ ret' = <<project(call.ds, call.region, call.modType)>>
  /\ UNCHANGED <<component, call, locals>>

CallFit ==
  /\ call.op = "fit" /\ ret = <<>>
  /\ ret' = <<calculateLinearRegression(call.points, "modRate", "cpm")>>
  /\ UNCHANGED <<component, call, locals>>

CallFilter ==
  /\ call.op = "filter" /\ ret = <<>>
  /\ ret' = <<filter(call.ds, call.term)>>
  /\ UNCHANGED <<component, call, locals>>

NextCore == CallProject \/ CallFit \/ CallFilter

SpecCore == InitCore /\ [][NextCore]_vars

\* ------------------------------------------------------------------------
\* Properties
\* ------------------------------------------------------------------------
InDataset(gene, ds) == \E i \in 1..Len(ds) : ds[i] = gene

SelectedGeneInActiveDataset ==
  selectedGene = <<>> \/ InDataset(selectedGene[1], geneData)

\* C1: in every reachable state the selected gene is unset or is a record of
\* the active sample's dataset, and every step that changes the active sample
\* leaves the selected gene unset.
C1_SelectedGeneBelongs ==
  [][ /\ SelectedGeneInActiveDataset
      /\ SelectedGeneInActiveDataset'
      /\ (selectedSample' # selectedSample => selectedGene' = <<>>) ]_vars

\* C1 witness: a gene of the second sample's dataset, which the first
\* sample's dataset does not contain, is selected while the second is active.
C1_Witness ==
  /\ selectedSample = "MR01_2"
  /\ selectedGene # <<>>
  /\ InDataset(selectedGene[1], geneDataMR01_2)
  /\ ~InDataset(selectedGene[1], geneDataMR01_1)
  /\ geneDataMR01_1 # <<>>

BothLoadsSucceeded == pc = "done" /\ loadError = "null"

\* C2: a sample's dataset is non-empty only if both loads have succeeded, and
\* once a load error is reported neither dataset is held.
C2_AtomicPublication ==
  /\ (geneDataMR01_1 # <<>> \/ geneDataMR01_2 # <<>>) => BothLoadsSucceeded
  /\ loadError # "null" => (geneDataMR01_1 = <<>> /\ geneDataMR01_2 = <<>>)

AllFinite(fit) ==
  IsFinite(fit.slope) /\ IsFinite(fit.intercept) /\ IsFinite(fit.r2)

\* C3: the fit of an empty point set fails with EmptyInputError, or at least
\* returns no NaN or infinite slope, intercept or rSquared; this covers the
\* fit of the active dataset before any data is loaded.
C3_EmptyFitFails ==
  Len(scatterData) = 0 =>
    (regression.throws = "EmptyInputError" \/ AllFinite(regression))

ConstantX(points) ==
  /\ Len(points) > 0
  /\ \A i, j \in 1..Len(points) :
       Mul(points[i].modRate, Num(100)) = Mul(points[j].modRate, Num(100))

\* C4: the fit of a non-empty point set whose scaled rates are all identical
\* fails with DegenerateFitError.
C4_ConstantXFails ==
  ConstantX(scatterData) => regression.throws = "DegenerateFitError"

WellFormed(ds) == \A i \in 1..Len(ds) : Has(ds[i], "id") /\ Has(ds[i], "name")

\* C5: a dataset with an entry missing id or name is never held by the
\* component: every record of either dataset has both.
C5_MalformedRejected == WellFormed(geneDataMR01_1) /\ WellFormed(geneDataMR01_2)

\* C6: a dataset changes only while loading and only from its initial empty
\* value (so at most once); once loading has finished no step changes it.
C6_DatasetsImmutable ==
  [][ /\ (geneDataMR01_1' # geneDataMR01_1 => isLoading /\ geneDataMR01_1 = <<>>)
      /\ (geneDataMR01_2' # geneDataMR01_2 => isLoading /\ geneDataMR01_2 = <<>>)
      /\ (~isLoading => UNCHANGED datasets) ]_vars

\* C6 witness: both datasets are loaded and the user has switched sample,
\* typed a search term and selected a gene.
C6_Witness ==
  /\ ~isLoading /\ loadError = "null"
  /\ geneDataMR01_1 # <<>> /\ geneDataMR01_2 # <<>>
  /\ Len(geneDataMR01_2) = 2
  /\ selectedSample = "MR01_2"
  /\ searchTerm # <<>>
  /\ filteredGenes.throws = "none"
  /\ Len(filteredGenes.value) = 1
  /\ selectedGene # <<>>

\* C7: project and filter never raise on a dataset the component holds,
\* whatever the selection and the search term.
C7_FilterProjectNeverRaise == filteredGenes.throws = "none"

\* ------------------------------------------------------------------------
\* Properties of the direct calls
\* ------------------------------------------------------------------------
Returned(op) == call.op = op /\ ret # <<>>

FitX(p) == Mul(p.modRate, Num(100))

\* the line through points p and q (of different x): <<a, b>> of y = a*x + b
LineThrough(p, q) ==
  LET a == Div(Sub(q.cpm, p.cpm), Sub(FitX(q), FitX(p)))
  IN  <<a, Sub(p.cpm, Mul(a, FitX(p)))>>

OnLine(points, ab) ==
  \A k \in 1..Len(points) :
    points[k].cpm = Add(Mul(ab[1], FitX(points[k])), ab[2])

\* C8: when the points (x = rate * 100) lie exactly on a line y = a*x + b and
\* have at least two distinct x, fit returns slope a and intercept b, and
\* rSquared 1 when a # 0.
C8_ExactLineFit ==
  Returned("fit") =>
    \A i, j \in 1..Len(call.points) :
      LET p == call.points[i]
          q == call.points[j]
          ab == LineThrough(p, q)
      IN  (FitX(p) # FitX(q) /\ OnLine(call.points, ab)) =>
            /\ ret[1].throws = "none"
            /\ ret[1].slope = ab[1]
            /\ ret[1].intercept = ab[2]
            /\ (ab[1] # Num(0) => ret[1].r2 = Num(1))

\* C8 witness: rates 0.1, 0.2, 0.3 with expressions 10, 20, 30 return
\* slope 1, intercept 0, rSquared 1.
C8_Witness ==
  /\ Returned("fit")
  /\ call.points = << [modRate |-> Rat(1, 10), cpm |-> Num(10)],
                      [modRate |-> Rat(1, 5), cpm |-> Num(20)],
                      [modRate |-> Rat(3, 10), cpm |-> Num(30)] >>
  /\ ret[1].slope = Num(1)
  /\ ret[1].intercept = Num(0)
  /\ ret[1].r2 = Num(1)

SameProperty(a, b, key) ==
  IF Has(a, key) /\ Has(b, key) THEN a[key] = b[key]
  ELSE ~Has(a, key) /\ ~Has(b, key)

\* C9: project(ds, r, m) has the length of ds and its i-th point carries the
\* id and name of ds[i].
C9_ProjectOrderPreserving ==
  Returned("project") =>
    /\ Len(ret[1]) = Len(call.ds)
    /\ \A i \in 1..Len(call.ds) :
         /\ i <= Len(ret[1])
         /\ SameProperty(ret[1][i], call.ds[i], "id")
         /\ SameProperty(ret[1][i], call.ds[i], "name")

\* C9 witness: a projection of two different records, the second of which
\* has no rate for the selection.
C9_Witness ==
  /\ Returned("project")
  /\ call.ds = <<geneB, geneAb>>
  /\ call.region = "total" /\ call.modType = "ai"
  /\ Len(ret[1]) = 2
  /\ ret[1][1].id = 2 /\ ret[1][2].id = 1

RateField(region, modType) ==
  CASE region = "utr5"   /\ modType = "ai"     -> "utr5_ai_rate"
    [] region = "utr5"   /\ modType = "m6a"    -> "utr5_m6a_rate"
    [] region = "utr5"   /\ modType = "either" -> "utr5_either_rate"
    [] region = "utr3"   /\ modType = "ai"     -> "utr3_ai_rate"
    [] region = "utr3"   /\ modType = "m6a"    -> "utr3_m6a_rate"
    [] region = "utr3"   /\ modType = "either" -> "utr3_either_rate"
    [] region = "exon"   /\ modType = "ai"     -> "exon_ai_rate"
    [] region = "exon"   /\ modType = "m6a"    -> "exon_m6a_rate"
    [] region = "exon"   /\ modType = "either" -> "exon_either_rate"
    [] region = "intron" /\ modType = "ai"     -> "intron_ai_rate"
    [] region = "intron" /\ modType = "m6a"    -> "intron_m6a_rate"
    [] region = "intron" /\ modType = "either" -> "intron_either_rate"
    [] region = "total"  /\ modType = "ai"     -> "total_ai_rate"
    [] region = "total"  /\ modType = "m6a"    -> "total_m6a_rate"
    [] region = "total"  /\ modType = "either" -> "total_either_rate"

CpmField(region) ==
  CASE region = "utr5"   -> "utr5_cpm"
    [] region = "utr3"   -> "utr3_cpm"
    [] region = "exon"   -> "exon_cpm"
    [] region = "intron" -> "intron_cpm"
    [] region = "total"  -> "total_cpm"

FieldOrZero(gene, key) == IF Has(gene, key) THEN gene[key] ELSE Num(0)

\* C10: the projected rate is the record's <region>_<modification>_rate when
\* present and 0 when absent, the projected expression its <region>_cpm when
\* present and 0 when absent; the Total Gene region reads total_*.
C10_ProjectedValues ==
  Returned("project") =>
    \A i \in 1..Len(call.ds) :
      /\ i <= Len(ret[1])
      /\ ret[1][i].modRate =
           FieldOrZero(call.ds[i], RateField(call.region, call.modType))
      /\ ret[1][i].cpm = FieldOrZero(call.ds[i], CpmField(call.region))

\* C10 witness: the Total Gene / A-to-I projection of a record that has the
\* total_* fields and of one that has not.
C10_Witness ==
  /\ Returned("project")
  /\ call.region = "total" /\ call.modType = "ai"
  /\ call.ds = <<geneAb, geneB>>
  /\ ret[1][1].modRate = Num(0) /\ ret[1][1].cpm = Num(0)
  /\ ret[1][2].modRate = Rat(3, 10) /\ ret[1][2].cpm = Num(30)

\* ------------------------------------------------------------------------
\* Properties of the filter and of the fit of constant expressions
\* ------------------------------------------------------------------------
ContainsIgnoringCase(obj, key, term) ==
  Has(obj, key) /\ includes(toLowerCase(obj[key]), toLowerCase(term))

\* the records of ds, in order, whose name or chromosome contains term
MatchingSubsequence(ds, term) ==
  SelectSeq(ds, LAMBDA g : \/ ContainsIgnoringCase(g, "name", term)
                           \/ ContainsIgnoringCase(g, "chromosome", term))

\* C11: the filter of the active dataset returns exactly the records, in
\* dataset order, whose name or chromosome (when present) contains the search
\* term case-insensitively; with the empty term it returns the dataset.
C11_FilterIsMatchingSubsequence ==
  /\ filteredGenes.throws = "none"
  /\ filteredGenes.value = MatchingSubsequence(geneData, searchTerm)
  /\ (searchTerm = <<>> => filteredGenes.value = geneData)

AllNamed(ds) == \A i \in 1..Len(ds) : Has(ds[i], "name")

\* On arrays whose records all have a name, a direct call of the filter
\* returns the matching subsequence.
FilterOnNamedRecords ==
  (Returned("filter") /\ AllNamed(call.ds)) =>
    /\ ret[1].throws = "none"
    /\ ret[1].value = MatchingSubsequence(call.ds, call.term)
    /\ (call.term = <<>> => ret[1].value = call.ds)

ConstantY(points) ==
  /\ \E i, j \in 1..Len(points) : FitX(points[i]) # FitX(points[j])
  /\ \A i, j \in 1..Len(points) : points[i].cpm = points[j].cpm

\* C12: for points with at least two distinct x and all y identical, fit
\* fails with DegenerateFitError or returns rSquared = 1, never NaN.
C12_ConstantYDefined ==
  (Returned("fit") /\ ConstantY(call.points)) =>
    \/ ret[1].throws = "DegenerateFitError"
    \/ ret[1].r2 = Num(1)

\* ------------------------------------------------------------------------
\* Properties of loading and of the selection handlers
\* ------------------------------------------------------------------------
LoadFailed == loadError # "null"

LoadSucceeded ==
  /\ loadError = "null"
  /\ data1 # <<>> /\ data2 # <<>>
  /\ geneDataMR01_1 = data1[1]
  /\ geneDataMR01_2 = data2[1]

\* C13: when every fetch and parse settles, isLoading eventually becomes
\* false and stays false; whenever it is false either loadError is set or
\* both datasets hold what their files parsed to and loadError is unset; no
\* event handler is enabled while loading or in the load-error state.
C13_LoadingEnds ==
  /\ <>[](~isLoading)
  /\ [](~isLoading => (pc = "done" /\ (LoadFailed \/ LoadSucceeded)))
  /\ []((isLoading \/ LoadFailed) => ~ENABLED UserAction)

\* C13 witness: loading has ended with both files parsed to non-empty,
\* different arrays and no error.
C13_Witness ==
  /\ ~isLoading /\ pc = "done" /\ LoadSucceeded
  /\ geneDataMR01_1 # <<>> /\ geneDataMR01_2 # <<>>
  /\ geneDataMR01_1 # geneDataMR01_2
  /\ ENABLED UserAction

\* C14: a step that changes the region, the modification type or the search
\* term changes nothing else: the sample, the selected gene and the other
\* selection fields stay as they are.
C14_SelectionFrame ==
  [][ /\ (selectedRegion' # selectedRegion =>
            UNCHANGED <<datasets, selectedSample, selectedModType, searchTerm,
                        selectedGene, isLoading, loadError>>)
      /\ (selectedModType' # selectedModType =>
            UNCHANGED <<datasets, selectedSample, selectedRegion, searchTerm,
                        selectedGene, isLoading, loadError>>)
      /\ (searchTerm' # searchTerm =>
            UNCHANGED <<datasets, selectedSample, selectedRegion,
                        selectedModType, selectedGene, isLoading, loadError>>) ]_vars

\* C14 witness: a gene is selected, the region and the modification type
\* have been changed, and the search term now filters the selected gene out
\* of the gene list.
C14_Witness ==
  /\ selectedGene # <<>>
  /\ selectedRegion # "utr5" /\ selectedModType # "ai"
  /\ searchTerm # <<>>
  /\ filteredGenes.throws = "none"
  /\ filteredGenes.value # <<>>
  /\ InDataset(selectedGene[1], geneData)
  /\ ~InDataset(selectedGene[1], filteredGenes.value)

====
